---- MODULE Spec2Model ----
(***************************************************************************)
(* Estate Task Manager (src/app.py): the TaskManager repository over a     *)
(* remote worksheet, and the Streamlit sessions that call it.              *)
(*                                                                         *)
(* The worksheet is a header row plus data rows of cells addressed by      *)
(* position.  Every cell is text.  Python values (the arguments of         *)
(* update_task and add_task) are tagged tuples: <<"int", n>>,              *)
(* <<"str", s>> and <<"dt", day, sec>> (a datetime).                       *)
(***************************************************************************)
EXTENDS Integers, Sequences, FiniteSets, TLC

\* ------------------------------------------------------------------ bounds
NumSessions == 2      \* concurrent browser sessions / callers
MaxRows     == 3      \* data rows the worksheet may grow to
MaxClock    == 1      \* last tick of the wall clock
MaxId       == 1      \* largest task id a caller asks update_task for
MaxCalls    == 4      \* repository calls started in a serialized run
MaxRacing   == 2      \* repository calls started in a concurrent run
MaxRun      == 3      \* repository calls started in a short serialized run

Sessions == 1..NumSessions

\* --------------------------------------------------------- python values
PyInt(n) == <<"int", n>>
PyStr(s) == <<"str", s>>
PyDate(day, sec) == <<"dt", day, sec>>

Digit == <<"0", "1", "2", "3", "4", "5", "6", "7", "8", "9">>

RECURSIVE IntStr(_)
IntStr(n) == IF n < 10 THEN Digit[n + 1]
             ELSE IntStr(n \div 10) \o Digit[(n % 10) + 1]

Pad2(n) == IF n < 10 THEN "0" \o IntStr(n) ELSE IntStr(n)

\* datetime.strftime('%Y-%m-%d %H:%M:%S') of the clock reading t (seconds)
StrftimeStamp(t) == "2025-01-01 00:00:" \o Pad2(t)

\* datetime.strftime('%Y-%m-%d'): the time of day is dropped
StrftimeDate(v) == "2025-01-" \o Pad2(v[2])

\* str(value)
str(v) == CASE v[1] = "int" -> IntStr(v[2])
            [] v[1] = "str" -> v[2]
            [] v[1] = "dt"  -> StrftimeDate(v) \o " 00:00:" \o Pad2(v[3])

\* the numerals a cell can hold in this model
MaxNum == 100
Numerals == {IntStr(n) : n \in 0..MaxNum}
NumeralPairs == {<<IntStr(n), n>> : n \in 0..MaxNum}
IsNumeral(s) == s \in Numerals
NumeralValue(s) == (CHOOSE p \in NumeralPairs : p[1] = s)[2]

\* gspread numericises the cells it returns from get_all_records
Numericise(s) == IF IsNumeral(s) THEN PyInt(NumeralValue(s)) ELSE PyStr(s)

\* ------------------------------------------------------------ worksheet
columns == <<"Task ID", "Task Description", "Category", "Responsible",
             "Start Date", "Deadline", "Status", "Priority", "Progress %",
             "Remarks", "Last Updated">>

\* row 1 of the worksheet; the program never writes it
Header == columns

Range(f) == {f[i] : i \in DOMAIN f}

\* headers.index(column_name) + 1, or None (0)
get_column_index(column_name) ==
    IF \E c \in 1..Len(Header) : Header[c] = column_name
    THEN CHOOSE c \in 1..Len(Header) :
            /\ Header[c] = column_name
            /\ \A d \in 1..(c - 1) : Header[d] # column_name
    ELSE 0

\* sheet.get_all_records(): one dict per data row, keyed by the header
get_all_records(rows) ==
    [i \in 1..Len(rows) |->
        [name \in Range(Header) |-> Numericise(rows[i][get_column_index(name)])]]

\* sheet.update_cell(idx, col, text): idx counts the header as row 1
update_cell(rows, idx, col, text) ==
    [rows EXCEPT ![idx - 1] = [@ EXCEPT ![col] = text]]

\* the text of the named cell of a data row
Cell(row, name) == row[get_column_index(name)]

\* the loop of update_task: the sheet row number (>= 2) of the first record
\* whose 'Task ID' matches, or 0 when the loop falls through
FindRow(all_data, task_id) ==
    IF \E i \in 1..Len(all_data) : str(all_data[i]["Task ID"]) = str(task_id)
    THEN 1 + (CHOOSE i \in 1..Len(all_data) :
                /\ str(all_data[i]["Task ID"]) = str(task_id)
                /\ \A j \in 1..(i - 1) : str(all_data[j]["Task ID"]) # str(task_id))
    ELSE 0

SetMax(S) == CHOOSE m \in S : \A x \in S : x <= m

\* add_task: int(all_tasks['Task ID'].max()) + 1, or 1 for an empty frame
NewId(all_tasks) ==
    IF Len(all_tasks) = 0 THEN 1
    ELSE SetMax({all_tasks[i]["Task ID"][2] : i \in 1..Len(all_tasks)}) + 1

\* task_data[key] = value
DictSet(d, key, value) ==
    [x \in (DOMAIN d) \cup {key} |-> IF x = key THEN value ELSE d[x]]

\* task_data.get(col, '')
DictGet(d, key) == IF key \in DOMAIN d THEN d[key] ELSE PyStr("")

\* [task_data.get(col, '') for col in columns], as the cells append_row stores
row_data(task_data) == [c \in 1..Len(columns) |-> str(DictGet(task_data, columns[c]))]

\* ------------------------------------------------------------- inputs
UpdDeleted  == << <<"Status", PyStr("Deleted")>> >>
UpdProgress == << <<"Status", PyStr("In Progress")>>, <<"Progress %", PyInt(40)>> >>
UpdDone     == << <<"Status", PyStr("Completed")>>, <<"Progress %", PyInt(100)>> >>
UpdId       == << <<"Task ID", PyInt(2)>> >>
UpdStamp    == << <<"Last Updated", PyStr(StrftimeStamp(MaxClock + 1))>>,
                  <<"Status", PyStr("Delayed")>> >>

UpdateMaps == {UpdDeleted, UpdProgress, UpdDone, UpdId, UpdStamp}

\* the dict add_task_form builds
FormData == [k \in {"Task Description", "Category", "Responsible", "Start Date",
                    "Deadline", "Status", "Priority", "Progress %", "Remarks"} |->
    CASE k = "Task Description" -> PyStr("Fix roof")
      [] k = "Category"         -> PyStr("")
      [] k = "Responsible"      -> PyStr("A. Lee")
      [] k = "Start Date"       -> PyStr("2025-01-01")
      [] k = "Deadline"         -> PyStr("2025-01-08")
      [] k = "Status"           -> PyStr("Not Started")
      [] k = "Priority"         -> PyStr("High")
      [] k = "Progress %"       -> PyInt(0)
      [] k = "Remarks"          -> PyStr("")]

\* a caller that fills in the two columns add_task owns
StampedData == DictSet(DictSet(FormData, "Task ID", PyInt(2)),
                       "Last Updated", PyStr(StrftimeStamp(MaxClock + 1)))

TaskDatas == {FormData, StampedData}

\* a key that is no column of the header, then one that is
UpdUnknown  == << <<"Owner", PyStr("B. Ray")>>, <<"Status", PyStr("Delayed")>> >>

\* values outside the choices the forms offer (lines 356-357)
UpdOdd      == << <<"Status", PyStr("Paused")>>, <<"Priority", PyStr("Urgent")>> >>

\* the arguments of the short serialized runs
RunMaps == {UpdProgress, UpdId, UpdStamp, UpdUnknown, UpdOdd}

RunDatas == {FormData}

\* the arguments of the racing callers
RacingMaps == {UpdProgress, UpdDone}

RacingDatas == {FormData}

\* ------------------------------------------------------------- state
VARIABLES sheet,      \* the data rows of the worksheet (row 2 onwards)
          opened,     \* setup_google_sheets set self.sheet (line 64)
          clock,      \* the wall clock datetime.now() reads
          pc,         \* where each session's repository call stands
          op,         \* the method the session called last ("none" at first)
          task_id,    \* update_task: argument
          updates,    \* update_task: argument, as its items() in order
          idx,        \* update_task: sheet row of the matched record
          k,          \* update_task: position in updates.items()
          task_data,  \* add_task: argument, as mutated by lines 118-119
          seen_ids,   \* add_task: the 'Task ID' column of all_tasks
          now,        \* add_task: clock reading of line 119 (-1: none)
          result,     \* value the call returned ("none" while running)
          calls,      \* repository calls started so far
          authenticated,  \* st.session_state.authenticated
          user_email,     \* st.session_state.user_email
          user_role,      \* st.session_state.user_role
          show_add_task,  \* st.session_state.show_add_task
          editing_task,   \* st.session_state.editing_task
          pre,        \* serialized runs: the rows when the call started
          again       \* serialized runs: the call repeats the one that just
                      \* returned True, with the same arguments

vars == <<sheet, opened, clock, pc, op, task_id, updates, idx, k, task_data, seen_ids,
          now, result, calls, authenticated, user_email, user_role,
          show_add_task, editing_task, pre, again>>

session == <<authenticated, user_email, user_role, show_add_task, editing_task>>

ghost == <<pre, again>>

locals == <<op, task_id, updates, idx, k, task_data, seen_ids, now>>

NoDict == [x \in {} |-> PyStr("")]

\* the worksheet holds the data rows `rows`; setup_google_sheets has opened
\* it, or has failed (is_open = FALSE) and left self.sheet unset
InitWith(rows, is_open) ==
    /\ sheet = rows
    /\ opened = is_open
    /\ clock = 0
    /\ pc = [s \in Sessions |-> "idle"]
    /\ op = [s \in Sessions |-> "none"]
    /\ task_id = [s \in Sessions |-> PyInt(0)]
    /\ updates = [s \in Sessions |-> << >>]
    /\ idx = [s \in Sessions |-> 0]
    /\ k = [s \in Sessions |-> 0]
    /\ task_data = [s \in Sessions |-> NoDict]
    /\ seen_ids = [s \in Sessions |-> << >>]
    /\ now = [s \in Sessions |-> -1]
    /\ result = [s \in Sessions |-> "none"]
    /\ calls = 0
    /\ authenticated = [s \in Sessions |-> FALSE]
    /\ user_email = [s \in Sessions |-> << >>]
    /\ user_role = [s \in Sessions |-> ""]
    /\ show_add_task = [s \in Sessions |-> FALSE]
    /\ editing_task = [s \in Sessions |-> PyStr("")]
    /\ pre = << >>
    /\ again = FALSE

\* an empty worksheet: the header row only
Init == InitWith(<< >>, TRUE)

\* a session can call when it is not inside a call
CanCall(s) == pc[s] \in {"idle", "done"}

\* the call of session s ends and returns r
Finish(s, r) ==
    /\ pc' = [pc EXCEPT ![s] = "done"]
    /\ result' = [result EXCEPT ![s] = r]

\* ---------------------------------------------------------- update_task
\* lines 95-97: a datetime is written as its date, anything else as str(value)
cell_text(value) == IF value[1] = "dt" THEN StrftimeDate(value) ELSE str(value)

\* variant: 'Last Updated' is stamped as soon as the row is found
update_task_find_stamping(s, id, upd) ==
    /\ CanCall(s)
    /\ calls' = calls + 1
    /\ op' = [op EXCEPT ![s] = "update_task"]
    /\ task_id' = [task_id EXCEPT ![s] = id]
    /\ updates' = [updates EXCEPT ![s] = upd]
    /\ task_data' = [task_data EXCEPT ![s] = NoDict]
    /\ seen_ids' = [seen_ids EXCEPT ![s] = << >>]
    /\ now' = [now EXCEPT ![s] = -1]
    /\ UNCHANGED <<clock, opened>>
    /\ \/ /\ Finish(s, "False")
          /\ idx' = [idx EXCEPT ![s] = 0]
          /\ k' = [k EXCEPT ![s] = 0]
          /\ UNCHANGED sheet
       \/ LET found == FindRow(get_all_records(sheet), id) IN
          /\ opened
          /\ idx' = [idx EXCEPT ![s] = found]
          /\ IF found = 0
             THEN /\ Finish(s, "False")
                  /\ k' = [k EXCEPT ![s] = 0]
                  /\ UNCHANGED sheet
             ELSE /\ pc' = [pc EXCEPT ![s] = IF Len(upd) = 0 THEN "upd_stamp"
                                              ELSE "upd_field"]
                  /\ k' = [k EXCEPT ![s] = 1]
                  /\ result' = [result EXCEPT ![s] = "none"]
                  /\ sheet' = update_cell(sheet, found, get_column_index("Last Updated"),
                                          StrftimeStamp(clock))

\* the sheet row number of the last record whose 'Task ID' matches, or 0
FindLastRow(all_data, id) ==
    IF \E i \in 1..Len(all_data) : str(all_data[i]["Task ID"]) = str(id)
    THEN 1 + (CHOOSE i \in 1..Len(all_data) :
                /\ str(all_data[i]["Task ID"]) = str(id)
                /\ \A j \in (i + 1)..Len(all_data) :
                      str(all_data[j]["Task ID"]) # str(id))
    ELSE 0

\* variant: the scan keeps going and the last matching record is taken
update_task_find_last(s, id, upd) ==
    /\ CanCall(s)
    /\ calls' = calls + 1
    /\ op' = [op EXCEPT ![s] = "update_task"]
    /\ task_id' = [task_id EXCEPT ![s] = id]
    /\ updates' = [updates EXCEPT ![s] = upd]
    /\ task_data' = [task_data EXCEPT ![s] = NoDict]
    /\ seen_ids' = [seen_ids EXCEPT ![s] = << >>]
    /\ now' = [now EXCEPT ![s] = -1]
    /\ UNCHANGED <<sheet, clock, opened>>
    /\ \/ /\ Finish(s, "False")
          /\ idx' = [idx EXCEPT ![s] = 0]
          /\ k' = [k EXCEPT ![s] = 0]
       \/ LET found == FindLastRow(get_all_records(sheet), id) IN
          /\ opened
          /\ idx' = [idx EXCEPT ![s] = found]
          /\ IF found = 0
             THEN /\ Finish(s, "False")
                  /\ k' = [k EXCEPT ![s] = 0]
             ELSE /\ pc' = [pc EXCEPT ![s] = IF Len(upd) = 0 THEN "upd_stamp"
                                              ELSE "upd_field"]
                  /\ k' = [k EXCEPT ![s] = 1]
                  /\ result' = [result EXCEPT ![s] = "none"]

\* variant: when no record matches the id, the first data row is taken
update_task_find_fallback(s, id, upd) ==
    /\ CanCall(s)
    /\ calls' = calls + 1
    /\ op' = [op EXCEPT ![s] = "update_task"]
    /\ task_id' = [task_id EXCEPT ![s] = id]
    /\ updates' = [updates EXCEPT ![s] = upd]
    /\ task_data' = [task_data EXCEPT ![s] = NoDict]
    /\ seen_ids' = [seen_ids EXCEPT ![s] = << >>]
    /\ now' = [now EXCEPT ![s] = -1]
    /\ UNCHANGED <<sheet, clock, opened>>
    /\ \/ /\ Finish(s, "False")
          /\ idx' = [idx EXCEPT ![s] = 0]
          /\ k' = [k EXCEPT ![s] = 0]
       \/ LET scan == FindRow(get_all_records(sheet), id)
              found == IF scan = 0 /\ Len(sheet) > 0 THEN 2 ELSE scan
          IN /\ opened
             /\ idx' = [idx EXCEPT ![s] = found]
             /\ IF found = 0
                THEN /\ Finish(s, "False")
                     /\ k' = [k EXCEPT ![s] = 0]
                ELSE /\ pc' = [pc EXCEPT ![s] = IF Len(upd) = 0 THEN "upd_stamp"
                                                 ELSE "upd_field"]
                     /\ k' = [k EXCEPT ![s] = 1]
                     /\ result' = [result EXCEPT ![s] = "none"]

\* lines 89-91, 103: read the table and scan for the id
update_task_find(s, id, upd) ==
    /\ CanCall(s)
    /\ calls' = calls + 1
    /\ op' = [op EXCEPT ![s] = "update_task"]
    /\ task_id' = [task_id EXCEPT ![s] = id]
    /\ updates' = [updates EXCEPT ![s] = upd]
    /\ task_data' = [task_data EXCEPT ![s] = NoDict]
    /\ seen_ids' = [seen_ids EXCEPT ![s] = << >>]
    /\ now' = [now EXCEPT ![s] = -1]
    /\ UNCHANGED <<sheet, clock, opened>>
    /\ \/ \* self.sheet is missing or get_all_records raises: lines 104-106
          /\ Finish(s, "False")
          /\ idx' = [idx EXCEPT ![s] = 0]
          /\ k' = [k EXCEPT ![s] = 0]
       \/ LET found == FindRow(get_all_records(sheet), id) IN
          /\ opened
          /\ idx' = [idx EXCEPT ![s] = found]
          /\ IF found = 0
             THEN /\ Finish(s, "False")
                  /\ k' = [k EXCEPT ![s] = 0]
             ELSE /\ pc' = [pc EXCEPT ![s] = IF Len(upd) = 0 THEN "upd_stamp"
                                              ELSE "upd_field"]
                  /\ k' = [k EXCEPT ![s] = 1]
                  /\ result' = [result EXCEPT ![s] = "none"]

\* variant: the handler of lines 104-106 stamps 'Last Updated' before it
\* returns False
update_task_field_stamping(s) ==
    /\ pc[s] = "upd_field"
    /\ UNCHANGED <<clock, opened, op, task_id, updates, idx, task_data, seen_ids, now, calls>>
    /\ \/ /\ Finish(s, "False")
          /\ sheet' = update_cell(sheet, idx[s], get_column_index("Last Updated"),
                                  StrftimeStamp(clock))
          /\ UNCHANGED k
       \/ LET col_idx == get_column_index(updates[s][k[s]][1]) IN
          /\ sheet' = IF col_idx # 0
                      THEN update_cell(sheet, idx[s], col_idx,
                                       cell_text(updates[s][k[s]][2]))
                      ELSE sheet
          /\ k' = [k EXCEPT ![s] = @ + 1]
          /\ pc' = [pc EXCEPT ![s] = IF k[s] = Len(updates[s]) THEN "upd_stamp"
                                     ELSE "upd_field"]
          /\ UNCHANGED result

\* variant: a 'Status' of 'Deleted' removes the row instead of writing the cell
update_task_field_removing(s) ==
    /\ pc[s] = "upd_field"
    /\ UNCHANGED <<clock, opened, op, task_id, updates, idx, task_data, seen_ids, now, calls>>
    /\ \/ /\ Finish(s, "False")
          /\ UNCHANGED <<sheet, k>>
       \/ LET key == updates[s][k[s]][1]
              text == cell_text(updates[s][k[s]][2])
              col_idx == get_column_index(key)
          IN /\ sheet' = IF key = "Status" /\ text = "Deleted"
                         THEN [r \in 1..(Len(sheet) - 1) |->
                                  IF r < idx[s] - 1 THEN sheet[r] ELSE sheet[r + 1]]
                         ELSE IF col_idx # 0
                         THEN update_cell(sheet, idx[s], col_idx, text)
                         ELSE sheet
             /\ IF key = "Status" /\ text = "Deleted"
                THEN Finish(s, "True") /\ UNCHANGED k
                ELSE /\ k' = [k EXCEPT ![s] = @ + 1]
                     /\ pc' = [pc EXCEPT ![s] = IF k[s] = Len(updates[s])
                                                THEN "upd_stamp" ELSE "upd_field"]
                     /\ UNCHANGED result

\* the rows after entries from..Len(upd) of upd were written to sheet row `row`
RECURSIVE WriteFrom(_, _, _, _)
WriteFrom(rows, row, upd, from) ==
    IF from > Len(upd) THEN rows
    ELSE LET col == get_column_index(upd[from][1])
             next == IF col = 0 THEN rows
                     ELSE update_cell(rows, row, col, cell_text(upd[from][2]))
         IN WriteFrom(next, row, upd, from + 1)

\* variant: the whole field map is written in one batch
update_task_field_batch(s) ==
    /\ pc[s] = "upd_field"
    /\ UNCHANGED <<clock, opened, op, task_id, updates, idx, task_data, seen_ids, now, calls>>
    /\ \/ /\ Finish(s, "False")
          /\ UNCHANGED <<sheet, k>>
       \/ /\ sheet' = WriteFrom(sheet, idx[s], updates[s], k[s])
          /\ k' = [k EXCEPT ![s] = Len(updates[s]) + 1]
          /\ pc' = [pc EXCEPT ![s] = "upd_stamp"]
          /\ UNCHANGED result

\* variant: every write also leaves a note in 'Remarks'
update_task_field_remarking(s) ==
    /\ pc[s] = "upd_field"
    /\ UNCHANGED <<clock, opened, op, task_id, updates, idx, task_data, seen_ids, now, calls>>
    /\ \/ /\ Finish(s, "False")
          /\ UNCHANGED <<sheet, k>>
       \/ LET key == updates[s][k[s]][1]
              value == updates[s][k[s]][2]
              col_idx == get_column_index(key)
              noted == update_cell(sheet, idx[s], get_column_index("Remarks"), "edited")
          IN /\ opened
             /\ sheet' = IF col_idx # 0
                         THEN update_cell(noted, idx[s], col_idx, cell_text(value))
                         ELSE sheet
             /\ k' = [k EXCEPT ![s] = @ + 1]
             /\ pc' = [pc EXCEPT ![s] = IF k[s] = Len(updates[s]) THEN "upd_stamp"
                                        ELSE "upd_field"]
             /\ UNCHANGED result

\* variant: a key the header does not have is written to 'Remarks'
update_task_field_defaulting(s) ==
    /\ pc[s] = "upd_field"
    /\ UNCHANGED <<clock, opened, op, task_id, updates, idx, task_data, seen_ids, now, calls>>
    /\ \/ /\ Finish(s, "False")
          /\ UNCHANGED <<sheet, k>>
       \/ LET key == updates[s][k[s]][1]
              value == updates[s][k[s]][2]
              col_idx == IF get_column_index(key) # 0 THEN get_column_index(key)
                         ELSE get_column_index("Remarks")
          IN /\ opened
             /\ sheet' = update_cell(sheet, idx[s], col_idx, cell_text(value))
             /\ k' = [k EXCEPT ![s] = @ + 1]
             /\ pc' = [pc EXCEPT ![s] = IF k[s] = Len(updates[s]) THEN "upd_stamp"
                                        ELSE "upd_field"]
             /\ UNCHANGED result

\* lines 92-97: one entry of updates.items()
update_task_field(s) ==
    /\ pc[s] = "upd_field"
    /\ UNCHANGED <<clock, opened, op, task_id, updates, idx, task_data, seen_ids, now, calls>>
    /\ \/ \* row_values or update_cell raises: lines 104-106
          /\ Finish(s, "False")
          /\ UNCHANGED <<sheet, k>>
       \/ LET key == updates[s][k[s]][1]
              value == updates[s][k[s]][2]
              col_idx == get_column_index(key)
              text == cell_text(value)
          IN /\ opened
             /\ sheet' = IF col_idx # 0
                         THEN update_cell(sheet, idx[s], col_idx, text)
                         ELSE sheet
             /\ k' = [k EXCEPT ![s] = @ + 1]
             /\ pc' = [pc EXCEPT ![s] = IF k[s] = Len(updates[s]) THEN "upd_stamp"
                                        ELSE "upd_field"]
             /\ UNCHANGED result

\* variant: a 'Last Updated' the caller supplied is kept
update_task_stamp_keeping(s) ==
    /\ pc[s] = "upd_stamp"
    /\ UNCHANGED <<clock, opened, locals, calls>>
    /\ \/ /\ Finish(s, "False")
          /\ UNCHANGED sheet
       \/ /\ sheet' = IF \E n \in 1..Len(updates[s]) : updates[s][n][1] = "Last Updated"
                      THEN sheet
                      ELSE update_cell(sheet, idx[s], get_column_index("Last Updated"),
                                       StrftimeStamp(clock))
          /\ Finish(s, "True")

\* lines 98-102: stamp 'Last Updated' and return True
update_task_stamp(s) ==
    /\ pc[s] = "upd_stamp"
    /\ UNCHANGED <<clock, opened, locals, calls>>
    /\ \/ \* row_values or update_cell raises: lines 104-106
          /\ Finish(s, "False")
          /\ UNCHANGED sheet
       \/ LET last_updated_col == get_column_index("Last Updated") IN
          /\ opened
          /\ sheet' = IF last_updated_col # 0
                      THEN update_cell(sheet, idx[s], last_updated_col,
                                       StrftimeStamp(clock))
                      ELSE sheet
          /\ Finish(s, "True")

\* ------------------------------------------------------------- add_task
\* get_all_tasks, lines 68-83: the records, or an empty frame when the read raises
get_all_tasks(rows, raised) == IF raised THEN << >> ELSE get_all_records(rows)

\* whether the read of line 71 raises: it may, and it does when self.sheet is
\* missing
ReadRaises == IF opened THEN BOOLEAN ELSE {TRUE}

\* variant: the id skips those that calls still waiting to append hold
add_task_fetch_reserving(s, data) ==
    /\ CanCall(s)
    /\ Len(sheet) + Cardinality({t \in Sessions : pc[t] = "add_append"}) < MaxRows
    /\ calls' = calls + 1
    /\ op' = [op EXCEPT ![s] = "add_task"]
    /\ \E raised \in BOOLEAN :
         LET all_tasks == IF raised THEN << >> ELSE get_all_records(sheet)
             new_id == NewId(all_tasks)
                       + Cardinality({t \in Sessions : pc[t] = "add_append"})
         IN /\ seen_ids' = [seen_ids EXCEPT ![s] =
                   [i \in 1..Len(all_tasks) |-> str(all_tasks[i]["Task ID"])]]
            /\ task_data' = [task_data EXCEPT ![s] =
                   DictSet(DictSet(data, "Task ID", PyInt(new_id)),
                           "Last Updated", PyStr(StrftimeStamp(clock)))]
    /\ now' = [now EXCEPT ![s] = clock]
    /\ pc' = [pc EXCEPT ![s] = "add_append"]
    /\ result' = [result EXCEPT ![s] = "none"]
    /\ task_id' = [task_id EXCEPT ![s] = PyInt(0)]
    /\ updates' = [updates EXCEPT ![s] = << >>]
    /\ idx' = [idx EXCEPT ![s] = 0]
    /\ k' = [k EXCEPT ![s] = 0]
    /\ UNCHANGED <<sheet, clock, opened>>

\* lines 112-119: read the table, choose the id, read the clock
add_task_fetch(s, data) ==
    /\ CanCall(s)
    /\ Len(sheet) + Cardinality({t \in Sessions : pc[t] = "add_append"}) < MaxRows
    /\ calls' = calls + 1
    /\ op' = [op EXCEPT ![s] = "add_task"]
    /\ \E raised \in ReadRaises :
         LET all_tasks == get_all_tasks(sheet, raised)
             new_id == NewId(all_tasks)
         IN /\ seen_ids' = [seen_ids EXCEPT ![s] =
                   [i \in 1..Len(all_tasks) |-> str(all_tasks[i]["Task ID"])]]
            /\ task_data' = [task_data EXCEPT ![s] =
                   DictSet(DictSet(data, "Task ID", PyInt(new_id)),
                           "Last Updated", PyStr(StrftimeStamp(clock)))]
    /\ now' = [now EXCEPT ![s] = clock]
    /\ pc' = [pc EXCEPT ![s] = "add_append"]
    /\ result' = [result EXCEPT ![s] = "none"]
    /\ task_id' = [task_id EXCEPT ![s] = PyInt(0)]
    /\ updates' = [updates EXCEPT ![s] = << >>]
    /\ idx' = [idx EXCEPT ![s] = 0]
    /\ k' = [k EXCEPT ![s] = 0]
    /\ UNCHANGED <<sheet, clock, opened>>

\* variant: the new row is inserted right under the header
add_task_append_front(s) ==
    /\ pc[s] = "add_append"
    /\ UNCHANGED <<clock, opened, locals, calls>>
    /\ \/ /\ Finish(s, "False")
          /\ UNCHANGED sheet
       \/ /\ opened
          /\ sheet' = <<row_data(task_data[s])>> \o sheet
          /\ Finish(s, "True")

\* variant: the row is appended whether or not the worksheet was opened
add_task_append_blind(s) ==
    /\ pc[s] = "add_append"
    /\ UNCHANGED <<clock, opened, locals, calls>>
    /\ \/ /\ Finish(s, "False")
          /\ UNCHANGED sheet
       \/ /\ sheet' = Append(sheet, row_data(task_data[s]))
          /\ Finish(s, "True")

\* lines 121-131: append the row
add_task_append(s) ==
    /\ pc[s] = "add_append"
    /\ UNCHANGED <<clock, opened, locals, calls>>
    /\ \/ \* self.sheet is missing or append_row raises: lines 129-131
          /\ Finish(s, "False")
          /\ UNCHANGED sheet
       \/ /\ opened
          /\ sheet' = Append(sheet, row_data(task_data[s]))
          /\ Finish(s, "True")

\* ------------------------------------------------------------ environment
\* the caller has taken the returned value; the frame's locals are gone
Return(s) ==
    /\ pc[s] = "done"
    /\ pc' = [pc EXCEPT ![s] = "idle"]
    /\ result' = [result EXCEPT ![s] = "none"]
    /\ op' = [op EXCEPT ![s] = "none"]
    /\ task_id' = [task_id EXCEPT ![s] = PyInt(0)]
    /\ updates' = [updates EXCEPT ![s] = << >>]
    /\ idx' = [idx EXCEPT ![s] = 0]
    /\ k' = [k EXCEPT ![s] = 0]
    /\ task_data' = [task_data EXCEPT ![s] = NoDict]
    /\ seen_ids' = [seen_ids EXCEPT ![s] = << >>]
    /\ now' = [now EXCEPT ![s] = -1]
    /\ UNCHANGED <<sheet, clock, opened, calls>>

Tick ==
    /\ clock < MaxClock
    /\ clock' = clock + 1
    /\ UNCHANGED <<sheet, opened, pc, locals, result, calls>>

\* ------------------------------------------- concurrent repository callers
StepField  == \E s \in Sessions : update_task_field(s) /\ UNCHANGED <<session, ghost>>
StepStamp  == \E s \in Sessions : update_task_stamp(s) /\ UNCHANGED <<session, ghost>>
StepAppend == \E s \in Sessions : add_task_append(s) /\ UNCHANGED <<session, ghost>>
StepReturn == \E s \in Sessions : Return(s) /\ UNCHANGED <<session, ghost>>
StepTick   == Tick /\ UNCHANGED <<session, ghost>>

CallUpdate == \E s \in Sessions, id \in 1..MaxId, upd \in RacingMaps :
    /\ calls < MaxRacing
    /\ update_task_find(s, PyInt(id), upd)
    /\ UNCHANGED <<session, ghost>>

CallAdd == \E s \in Sessions, data \in RacingDatas :
    /\ calls < MaxRacing
    /\ add_task_fetch(s, data)
    /\ UNCHANGED <<session, ghost>>

Next == CallUpdate \/ StepField \/ StepStamp \/ CallAdd \/ StepAppend
        \/ StepReturn \/ StepTick

\* the racing callers find the worksheet with the one task an earlier
\* add_task left there
FirstRow == row_data(DictSet(DictSet(FormData, "Task ID", PyInt(1)),
                             "Last Updated", PyStr(StrftimeStamp(0))))

InitRacing == InitWith(<<FirstRow>>, TRUE)

Spec == InitRacing /\ [][Next]_vars

\* ------------------------- concurrent callers, one of them rewriting an id
StaleMaps == {UpdProgress, UpdId}

StaleUpdate == \E s \in Sessions, id \in 1..MaxId, upd \in StaleMaps :
    /\ calls < MaxRacing
    /\ update_task_find(s, PyInt(id), upd)
    /\ UNCHANGED <<session, ghost>>

NextStale == StaleUpdate \/ StepField \/ StepStamp \/ CallAdd \/ StepAppend
             \/ StepReturn \/ StepTick

SpecStale == InitRacing /\ [][NextStale]_vars

\* ------------------------------- callers of a repository that never opened
\* setup_google_sheets failed (lines 65-66): the worksheet, with its one task,
\* is out of reach
InitUnopened == InitWith(<<FirstRow>>, FALSE)

UnopenedUpdate == \E s \in Sessions, id \in 1..MaxId, upd \in UpdateMaps :
    /\ calls < MaxRacing
    /\ update_task_find(s, PyInt(id), upd)
    /\ UNCHANGED <<session, ghost>>

UnopenedAdd == \E s \in Sessions, data \in TaskDatas :
    /\ calls < MaxRacing
    /\ add_task_fetch(s, data)
    /\ UNCHANGED <<session, ghost>>

NextUnopened == UnopenedUpdate \/ UnopenedAdd \/ StepAppend \/ StepReturn
                \/ StepTick

SpecUnopened == InitUnopened /\ [][NextUnopened]_vars

\* ------------------------------------------- serialized repository callers
\* one call at a time: a single caller, each call made after the last returned
Caller == 1

SerialUpdate == \E s \in {Caller}, id \in 1..MaxId, upd \in UpdateMaps :
    /\ calls < MaxCalls
    /\ update_task_find(s, PyInt(id), upd)
    /\ pre' = sheet
    /\ again' = (pc[s] = "done" /\ result[s] = "True"
                 /\ task_id[s] = PyInt(id) /\ updates[s] = upd)
    /\ UNCHANGED session

SerialAdd == \E s \in {Caller}, data \in TaskDatas :
    /\ calls < MaxCalls
    /\ add_task_fetch(s, data)
    /\ pre' = sheet
    /\ again' = FALSE
    /\ UNCHANGED session

SerialReturn == \E s \in {Caller} :
    /\ Return(s)
    /\ pre' = << >>
    /\ again' = FALSE
    /\ UNCHANGED session

NextSerial == SerialUpdate \/ StepField \/ StepStamp \/ SerialAdd \/ StepAppend
              \/ SerialReturn \/ StepTick

SpecSerial == Init /\ [][NextSerial]_vars

\* ------------------------------------------------- short serialized runs
RunUpdate == \E s \in {Caller}, id \in 1..MaxId, upd \in RunMaps :
    /\ calls < MaxRun
    /\ update_task_find(s, PyInt(id), upd)
    /\ pre' = sheet
    /\ again' = (pc[s] = "done" /\ result[s] = "True"
                 /\ task_id[s] = PyInt(id) /\ updates[s] = upd)
    /\ UNCHANGED session

RunAdd == \E s \in {Caller}, data \in RunDatas :
    /\ calls < MaxRun
    /\ add_task_fetch(s, data)
    /\ pre' = sheet
    /\ again' = FALSE
    /\ UNCHANGED session

NextRun == RunUpdate \/ StepField \/ StepStamp \/ RunAdd \/ StepAppend
           \/ SerialReturn \/ StepTick

SpecRun == Init /\ [][NextRun]_vars

\* ------------------------------------------------- serialized add_task only
NextAppend == SerialAdd \/ StepAppend \/ SerialReturn \/ StepTick

SpecAppend == Init /\ [][NextAppend]_vars

\* ------------------------------------------------------ Streamlit sessions
\* an email address is the sequence of its characters
AdminEmail == <<"t", "r", "i", "f", "o", "l", "d", "2", "0", "2", "5", "@",
                "g", "m", "a", "i", "l", ".", "c", "o", "m">>

\* TaskManager.__init__, line 54
admin_emails == {AdminEmail}

Emails == {AdminEmail,
           [AdminEmail EXCEPT ![1] = "T"],
           <<"a", "@", "b">>,
           <<"a", "d", "m", "i", "n">>}

\* authenticate_user, lines 148-166: the login form is submitted
authenticate_user(s, email) ==
    /\ ~authenticated[s]
    /\ IF "@" \in Range(email) /\ "." \in Range(email)
       THEN /\ authenticated' = [authenticated EXCEPT ![s] = TRUE]
            /\ user_email' = [user_email EXCEPT ![s] = email]
            /\ user_role' = [user_role EXCEPT ![s] =
                                IF email \in admin_emails THEN "Admin" ELSE "Viewer"]
       ELSE UNCHANGED <<authenticated, user_email, user_role>>
    /\ UNCHANGED <<sheet, clock, opened, pc, locals, result, calls, show_add_task,
                   editing_task>>

\* main, lines 401-403: the sidebar button an Admin is shown
add_new_task_button(s) ==
    /\ authenticated[s]
    /\ pc[s] \in {"idle", "done"}
    /\ user_role[s] = "Admin"
    /\ show_add_task' = [show_add_task EXCEPT ![s] = TRUE]
    /\ UNCHANGED <<sheet, clock, opened, pc, locals, result, calls, authenticated,
                   user_email, user_role, editing_task>>

\* main, lines 423-427: "Back to Main View"
back_to_main_button(s) ==
    /\ authenticated[s]
    /\ pc[s] \in {"idle", "done"}
    /\ show_add_task[s] /\ user_role[s] = "Admin"
    /\ show_add_task' = [show_add_task EXCEPT ![s] = FALSE]
    /\ UNCHANGED <<sheet, clock, opened, pc, locals, result, calls, authenticated,
                   user_email, user_role, editing_task>>

\* main line 423 and add_task_form, lines 363-382: the form is submitted
add_task_form(s, task_desc, responsible) ==
    /\ authenticated[s]
    /\ show_add_task[s] /\ user_role[s] = "Admin"
    /\ UNCHANGED session
    /\ IF task_desc # "" /\ responsible # ""
       THEN add_task_fetch(s, [FormData EXCEPT
                                  !["Task Description"] = PyStr(task_desc),
                                  !["Responsible"] = PyStr(responsible)])
       ELSE /\ pc[s] \in {"idle", "done"}
            /\ UNCHANGED <<sheet, clock, opened, pc, locals, result, calls>>

status_columns == {"Not Started", "In Progress", "Completed", "Delayed"}

\* variant: the Delete button is rendered whatever the role
delete_button_unguarded(s, r) ==
    /\ authenticated[s]
    /\ r \in 1..Len(sheet)
    /\ Cell(sheet[r], "Status") \in status_columns
    /\ update_task_find(s, get_all_records(sheet)[r]["Task ID"], UpdDeleted)
    /\ UNCHANGED session

\* show_kanban_view, lines 286-305, over the frame main read at line 410:
\* the Delete button of the card of data row r
delete_button(s, r) ==
    /\ authenticated[s]
    /\ r \in 1..Len(sheet)
    /\ Cell(sheet[r], "Status") \in status_columns
    /\ user_role[s] = "Admin"
    /\ update_task_find(s, get_all_records(sheet)[r]["Task ID"], UpdDeleted)
    /\ UNCHANGED session

\* show_kanban_view, lines 299-301: the Edit button of the card of data row r
edit_button(s, r) ==
    /\ authenticated[s]
    /\ pc[s] \in {"idle", "done"}
    /\ r \in 1..Len(sheet)
    /\ Cell(sheet[r], "Status") \in status_columns
    /\ user_role[s] = "Admin"
    /\ editing_task' = [editing_task EXCEPT ![s] = get_all_records(sheet)[r]["Task ID"]]
    /\ UNCHANGED <<sheet, clock, opened, pc, locals, result, calls, authenticated,
                   user_email, user_role, show_add_task>>

Login      == \E s \in Sessions, email \in Emails :
                 authenticate_user(s, email) /\ UNCHANGED ghost
ClickAdd   == \E s \in Sessions : add_new_task_button(s) /\ UNCHANGED ghost
ClickBack  == \E s \in Sessions : back_to_main_button(s) /\ UNCHANGED ghost
SubmitForm == \E s \in Sessions, task_desc \in {"", "Fix roof"}, responsible \in {"", "A. Lee"} :
                 calls < MaxRacing /\ add_task_form(s, task_desc, responsible)
                 /\ UNCHANGED ghost
ClickDelete == \E s \in Sessions, r \in 1..MaxRows :
                 calls < MaxRacing /\ delete_button(s, r) /\ UNCHANGED ghost
ClickEdit  == \E s \in Sessions, r \in 1..MaxRows :
                 edit_button(s, r) /\ UNCHANGED ghost

\* the sessions are followed within one reading of the clock: who may write
\* does not depend on the text of the stamp
NextApp == Login \/ ClickAdd \/ ClickBack \/ SubmitForm \/ ClickDelete \/ ClickEdit
           \/ StepField \/ StepStamp \/ StepAppend \/ StepReturn

SpecApp == Init /\ [][NextApp]_vars

\* ================================================================= claims
TaskIdOf(row) == Cell(row, "Task ID")

\* the data row a running or finished update_task call acts on
Target(s) == idx[s] - 1

Done(s, method, r) == pc[s] = "done" /\ op[s] = method /\ result[s] = r

\* C1: starting from an empty table, under add_task calls run one at a time
\* and nothing else, the ids of the rows are 1, 2, 3, ... in call order
\* (hence pairwise distinct).
C1_SerialIdsCountUp ==
    \A r \in 1..Len(sheet) : TaskIdOf(sheet[r]) = IntStr(r)

\* C2: two add_task calls that read the same snapshot, both before either
\* appends, hold the same new id, which is max + 1 of that snapshot; the rows
\* they append carry it twice.
InAddPastFetch(s) == op[s] = "add_task" /\ pc[s] \in {"add_append", "done"}

C2_SameSnapshotSameId ==
    \A s \in Sessions : \A t \in Sessions \ {s} :
        (InAddPastFetch(s) /\ InAddPastFetch(t) /\ seen_ids[s] = seen_ids[t])
        => /\ task_data[s]["Task ID"] = task_data[t]["Task ID"]
           /\ \A i \in 1..Len(seen_ids[s]) :
                 NumeralValue(seen_ids[s][i]) < task_data[t]["Task ID"][2]

C2_DuplicateIdsReached ==
    \E s \in Sessions : \E t \in Sessions \ {s} :
        /\ Done(s, "add_task", "True") /\ Done(t, "add_task", "True")
        /\ seen_ids[s] = <<"1">> /\ seen_ids[t] = <<"1">>
        /\ Len(sheet) = 3
        /\ TaskIdOf(sheet[2]) = "2" /\ TaskIdOf(sheet[3]) = "2"

\* C3: no step changes the 'Task ID' cell of an existing row, whatever field
\* map update_task is given.
C3_IdNeverChanges ==
    [][\A r \in 1..Len(sheet) : TaskIdOf(sheet'[r]) = TaskIdOf(sheet[r])]_vars

\* the rows after the first n entries of upd were written to sheet row `row`
RECURSIVE ApplyPrefix(_, _, _, _)
ApplyPrefix(rows, row, upd, n) ==
    IF n = 0 THEN rows
    ELSE LET before == ApplyPrefix(rows, row, upd, n - 1)
             col == get_column_index(upd[n][1])
         IN IF col = 0 THEN before
            ELSE [before EXCEPT ![row - 1][col] = cell_text(upd[n][2])]

\* C4: an update_task call that found its row and returned False left the
\* table equal to its pre-call state with a prefix of the field map written
\* to the target row (the entries before the failing one), nothing else
\* changed, and nothing is written afterwards.
C4_FailureLeavesPrefix ==
    \A s \in Sessions :
        (Done(s, "update_task", "False") /\ idx[s] # 0)
        => /\ k[s] - 1 \in 0..Len(updates[s])
           /\ sheet = ApplyPrefix(pre, idx[s], updates[s], k[s] - 1)

C4_PartialWriteReached ==
    \E s \in Sessions :
        /\ Done(s, "update_task", "False") /\ idx[s] # 0
        /\ k[s] = 2 /\ Len(updates[s]) = 2
        /\ sheet # pre
        /\ sheet = ApplyPrefix(pre, idx[s], updates[s], 1)
        /\ sheet # ApplyPrefix(pre, idx[s], updates[s], 2)

\* C5: the step by which update_task returns True is the write of the clock
\* reading to the target row's 'Last Updated', made after every entry of the
\* field map was handled; the row a successful add_task appends carries the
\* clock reading of that call.  Neither is a value the caller supplied.
C5_StampIsClockReading ==
    [][\A s \in Sessions :
         /\ (pc[s] = "upd_stamp" /\ pc'[s] = "done" /\ result'[s] = "True")
            => /\ k[s] = Len(updates[s]) + 1
               /\ Cell(sheet'[Target(s)], "Last Updated") = StrftimeStamp(clock)
         /\ (pc[s] = "add_append" /\ pc'[s] = "done" /\ result'[s] = "True")
            => /\ now[s] \in 0..clock
               /\ Len(sheet') = Len(sheet) + 1
               /\ Cell(sheet'[Len(sheet')], "Last Updated") = StrftimeStamp(now[s])
      ]_vars

HasKey(upd, key) == \E n \in 1..Len(upd) : upd[n][1] = key

C5_SuppliedStampOverwritten ==
    \E s \in Sessions :
        /\ Done(s, "update_task", "True")
        /\ HasKey(updates[s], "Last Updated")
        /\ clock = MaxClock
        /\ Cell(sheet[Target(s)], "Last Updated") = StrftimeStamp(clock)
        /\ \E n \in 1..Len(updates[s]) :
              /\ updates[s][n][1] = "Last Updated"
              /\ cell_text(updates[s][n][2]) # StrftimeStamp(clock)

\* the clock reading a 'Last Updated' text stands for
StampValue(text) == CHOOSE t \in 0..59 : StrftimeStamp(t) = text

\* C6: an update_task call that returned True left a 'Last Updated' that is
\* not earlier than the one the row held when the call started.
C6_StampNeverGoesBack ==
    \A s \in Sessions :
        Done(s, "update_task", "True")
        => StampValue(Cell(sheet[Target(s)], "Last Updated"))
              >= StampValue(Cell(pre[Target(s)], "Last Updated"))

\* the rows with the 'Last Updated' column blanked
NoStamp(rows) ==
    [r \in 1..Len(rows) |->
        [c \in 1..Len(rows[r]) |->
            IF c = get_column_index("Last Updated") THEN "" ELSE rows[r][c]]]

\* C7: when update_task(id, m) returned True and the same call is made again
\* at once and returns True, every cell outside 'Last Updated' is the same
\* after the second call as after the first.
C7_RepeatedUpdateChangesNothing ==
    \A s \in Sessions :
        (Done(s, "update_task", "True") /\ again)
        => NoStamp(sheet) = NoStamp(pre)

\* C8: no step removes or moves a row, and the step by which
\* update_task(id, {'Status': 'Deleted'}) returns True leaves a table in
\* which the scan for id still finds the row, now with status Deleted.
C8_SoftDeleteKeepsRow ==
    [][/\ Len(sheet') >= Len(sheet)
       /\ \A s \in Sessions :
            (pc[s] = "upd_stamp" /\ updates[s] = UpdDeleted /\ result'[s] = "True")
            => /\ FindRow(get_all_records(sheet'), task_id[s]) = idx[s]
               /\ Cell(sheet'[Target(s)], "Status") = "Deleted"
               /\ Len(sheet') = Len(pre)
      ]_vars

C8_DeletedRowPresent ==
    \E s \in Sessions :
        /\ Done(s, "update_task", "True") /\ updates[s] = UpdDeleted
        /\ Len(sheet) >= 2
        /\ Cell(pre[Target(s)], "Status") # "Deleted"
        /\ Cell(sheet[Target(s)], "Status") = "Deleted"
        /\ str(get_all_records(sheet)[Target(s)]["Task ID"]) = str(task_id[s])

\* the cells in which two tables of the same height differ
ChangedCells(old, new) ==
    {rc \in (1..Len(old)) \X (1..Len(columns)) : old[rc[1]][rc[2]] # new[rc[1]][rc[2]]}

\* C9: update_task writes one cell per step, so concurrent calls interleave
\* per field: a step that does not append changes at most one cell, and it
\* is the cell of the stepping call's current entry (or its stamp).
C9_OneCellPerStep ==
    [][Len(sheet') = Len(sheet) =>
         /\ Cardinality(ChangedCells(sheet, sheet')) <= 1
         /\ \A rc \in ChangedCells(sheet, sheet') :
              \E s \in Sessions :
                 /\ rc[1] = Target(s)
                 /\ \/ /\ pc[s] = "upd_field"
                       /\ Header[rc[2]] = updates[s][k[s]][1]
                       /\ sheet'[rc[1]][rc[2]] = cell_text(updates[s][k[s]][2])
                    \/ /\ pc[s] = "upd_stamp"
                       /\ Header[rc[2]] = "Last Updated"
      ]_vars

C9_MixedRowReached ==
    \E s \in Sessions : \E t \in Sessions \ {s} :
        /\ Done(s, "update_task", "True") /\ Done(t, "update_task", "True")
        /\ updates[s] = UpdProgress /\ updates[t] = UpdDone
        /\ idx[s] = idx[t]
        /\ Cell(sheet[Target(s)], "Status") = "In Progress"
        /\ Cell(sheet[Target(s)], "Progress %") = "100"

\* C10: a repository call is only ever made by a session whose role is Admin;
\* a session logged in with an address outside admin_emails is a Viewer, stays
\* one, and is never inside a call; every step that changes the table is a
\* step of an Admin session's call.
C10_OnlyAdminMutates ==
    /\ [](\A s \in Sessions :
            /\ (pc[s] # "idle" \/ op[s] # "none") => user_role[s] = "Admin"
            /\ (authenticated[s] /\ user_email[s] \notin admin_emails)
               => user_role[s] = "Viewer"
            /\ ~authenticated[s] => user_role[s] = "")
    /\ [][/\ \A s \in Sessions :
               user_role[s] = "Viewer" => user_role'[s] = "Viewer"
          /\ sheet' # sheet =>
               \E s \in Sessions :
                  /\ user_role[s] = "Admin"
                  /\ pc[s] \in {"upd_field", "upd_stamp", "add_append"}
                  /\ pc'[s] # pc[s] \/ k'[s] # k[s]
         ]_vars

C10_ViewerBesideAdminWrite ==
    \E s \in Sessions : \E t \in Sessions \ {s} :
        /\ authenticated[s] /\ user_role[s] = "Viewer"
        /\ user_email[s] = [AdminEmail EXCEPT ![1] = "T"]
        /\ user_role[t] = "Admin"
        /\ Done(t, "update_task", "True")
        /\ Cell(sheet[Target(t)], "Status") = "Deleted"

\* the data rows whose 'Task ID', read as get_all_records returns it, matches
\* as line 91 compares
MatchingRows(rows, id) ==
    {r \in 1..Len(rows) : str(Numericise(TaskIdOf(rows[r]))) = str(id)}

\* C11: an update_task call whose id matches no record of the table it read
\* has returned False as soon as it has read, and the table is cell for cell
\* the one it read, every 'Last Updated' included.
C11_NotFoundWritesNothing ==
    \A s \in Sessions :
        (op[s] = "update_task" /\ MatchingRows(pre, task_id[s]) = {})
        => /\ pc[s] = "done" /\ result[s] = "False"
           /\ sheet = pre

C11_MissingIdReached ==
    \E s \in Sessions :
        /\ Done(s, "update_task", "False")
        /\ Len(pre) >= 1
        /\ MatchingRows(pre, task_id[s]) = {}
        /\ sheet = pre

\* C12: when setup_google_sheets failed, get_all_tasks hands add_task an
\* empty frame although the worksheet holds a task, every update_task and
\* add_task call that returns returns False, none gets as far as a cell
\* write, and the worksheet keeps its rows.
C12_UnopenedRejectsAll ==
    ~opened =>
        /\ sheet = <<FirstRow>>
        /\ \A s \in Sessions :
              /\ op[s] = "add_task" => seen_ids[s] = << >>
              /\ pc[s] = "done" => result[s] = "False"
              /\ pc[s] \notin {"upd_field", "upd_stamp"}

C12_BothRejected ==
    \E s \in Sessions : \E t \in Sessions \ {s} :
        /\ ~opened
        /\ Done(s, "update_task", "False")
        /\ Done(t, "add_task", "False")
        /\ seen_ids[t] = << >> /\ Len(sheet) = 1

\* the statuses the forms and the Delete button write (lines 303, 356) and the
\* priorities the form offers (line 357)
Statuses == status_columns \cup {"Deleted"}
Priorities == {"High", "Medium", "Low"}

\* C13: whatever add_task and update_task calls were made, every row's status
\* is one of the five statuses and its priority one of High, Medium, Low.
C13_StatusAndPriorityInEnum ==
    \A r \in 1..Len(sheet) :
        /\ Cell(sheet[r], "Status") \in Statuses
        /\ Cell(sheet[r], "Priority") \in Priorities

\* the value the field map gives for the column `name`
ValueOf(upd, name) == upd[CHOOSE n \in 1..Len(upd) : upd[n][1] = name][2]

\* the table in which sheet row `row` holds the values of the field map in
\* the columns it names and every other cell is as in `rows`
Expected(rows, row, upd) ==
    [r \in 1..Len(rows) |->
        [c \in 1..Len(columns) |->
            IF r = row - 1 /\ HasKey(upd, Header[c])
            THEN cell_text(ValueOf(upd, Header[c]))
            ELSE rows[r][c]]]

\* the texts strftime gives for the clock readings so far
StampsSoFar == {StrftimeStamp(t) : t \in 0..clock}

\* C14: an update_task call given a key that is no column of the header and
\* returning True has written no cell for that key, has written every other
\* entry, and has stamped 'Last Updated' with a clock reading: apart from the
\* stamp the table is the one it read with the known columns set.
C14_UnknownFieldSkipped ==
    \A s \in Sessions :
        (/\ Done(s, "update_task", "True")
         /\ \E n \in 1..Len(updates[s]) : get_column_index(updates[s][n][1]) = 0)
        => /\ NoStamp(sheet) = NoStamp(Expected(pre, idx[s], updates[s]))
           /\ Cell(sheet[Target(s)], "Last Updated") \in StampsSoFar

C14_SkippedAndStamped ==
    \E s \in Sessions :
        /\ Done(s, "update_task", "True") /\ updates[s] = UpdUnknown
        /\ Cell(pre[Target(s)], "Status") = "Not Started"
        /\ Cell(sheet[Target(s)], "Status") = "Delayed"
        /\ Cell(pre[Target(s)], "Last Updated") = StrftimeStamp(0)
        /\ Cell(sheet[Target(s)], "Last Updated") = StrftimeStamp(MaxClock)
        /\ \A c \in 1..Len(columns) : sheet[Target(s)][c] # "B. Ray"

\* C15: an update_task(id, m) call run on its own that returned True acted on
\* the first row whose id matched in the table it read; there each column m
\* names holds the text of m's value, and apart from 'Last Updated' every
\* other cell of that row and of every other row is as it was; the rows are
\* as many and in the same order.
C15_UpdateSetsNamedFields ==
    \A s \in Sessions :
        Done(s, "update_task", "True")
        => /\ Target(s) \in MatchingRows(pre, task_id[s])
           /\ \A r \in MatchingRows(pre, task_id[s]) : Target(s) <= r
           /\ Len(sheet) = Len(pre)
           /\ NoStamp(sheet) = NoStamp(Expected(pre, idx[s], updates[s]))

C15_ExampleReached ==
    \E s \in Sessions :
        /\ Done(s, "update_task", "True")
        /\ task_id[s] = PyInt(1) /\ updates[s] = UpdProgress
        /\ pre = <<FirstRow>>
        /\ Len(sheet) = 1
        /\ TaskIdOf(sheet[1]) = "1"
        /\ Cell(sheet[1], "Task Description") = "Fix roof"
        /\ Cell(sheet[1], "Status") = "In Progress"
        /\ Cell(sheet[1], "Progress %") = "40"

\* 1 + the largest 'Task ID' of the rows, or 1 when there are none
NextIdOf(rows) ==
    IF Len(rows) = 0 THEN 1
    ELSE SetMax({NumeralValue(TaskIdOf(rows[r])) : r \in 1..Len(rows)}) + 1

\* C16: the id an add_task call run on its own gives its row is 1 + the
\* largest id of the table as it was when the call read it (1 for a table
\* without rows), whether or not that read failed.
C16_IdIsMaxPlusOne ==
    \A s \in Sessions :
        (op[s] = "add_task" /\ pc[s] \in {"add_append", "done"})
        => task_data[s]["Task ID"] = PyInt(NextIdOf(pre))

\* C17: when several rows of the table an update_task call read carry the
\* id, the call acts on the first of them in sheet order; once it has
\* returned True every other row, the later rows with that id among them, is
\* cell for cell as it was, 'Last Updated' included.
C17_OnlyFirstDuplicateWritten ==
    \A s \in Sessions :
        (/\ Done(s, "update_task", "True")
         /\ Cardinality(MatchingRows(pre, task_id[s])) >= 2)
        => /\ Target(s) \in MatchingRows(pre, task_id[s])
           /\ \A r \in MatchingRows(pre, task_id[s]) : Target(s) <= r
           /\ \A r \in (1..Len(pre)) \ {Target(s)} : sheet[r] = pre[r]

C17_SecondDuplicateUntouched ==
    \E s \in Sessions :
        /\ Done(s, "update_task", "True") /\ updates[s] = UpdProgress
        /\ Len(pre) = 2
        /\ TaskIdOf(pre[1]) = "1" /\ TaskIdOf(pre[2]) = "1"
        /\ Cell(sheet[1], "Status") = "In Progress"
        /\ Cell(sheet[1], "Last Updated") = StrftimeStamp(MaxClock)
        /\ sheet[2] = pre[2]
        /\ Cell(sheet[2], "Last Updated") = StrftimeStamp(0)

\* C18: the step by which add_task returns True adds one row below the rows
\* the table has at that moment and changes no cell of those; the step by
\* which it returns False, and the step in which it reads the table and
\* chooses the id, change nothing in the table.
C18_AppendOnlyAdds ==
    [][\A s \in Sessions :
         /\ (pc[s] = "add_append" /\ pc'[s] = "done" /\ result'[s] = "True")
            => /\ Len(sheet') = Len(sheet) + 1
               /\ \A r \in 1..Len(sheet) : sheet'[r] = sheet[r]
         /\ (pc[s] = "add_append" /\ pc'[s] = "done" /\ result'[s] = "False")
            => sheet' = sheet
         /\ (pc[s] # "add_append" /\ pc'[s] = "add_append")
            => sheet' = sheet
      ]_vars

C18_RowAddedBelow ==
    \E s \in Sessions : \E t \in Sessions \ {s} :
        /\ Done(s, "add_task", "True")
        /\ Done(t, "add_task", "False")
        /\ Len(sheet) = 2
        /\ sheet[1] = FirstRow
        /\ sheet[2] = row_data(task_data[s])

\* C19: whatever the interleaving of add_task and update_task calls, a cell
\* write of an update_task(id, m) call whose map leaves 'Task ID' alone lands
\* on a row that carries the id at that moment.
C19_WriteLandsOnOwnId ==
    [][\A s \in Sessions :
         (/\ pc[s] \in {"upd_field", "upd_stamp"}
          /\ ~HasKey(updates[s], "Task ID")
          /\ k'[s] # k[s] \/ pc'[s] # pc[s]
          /\ sheet' # sheet)
         => str(Numericise(TaskIdOf(sheet[Target(s)]))) = str(task_id[s])
      ]_vars

\* the 'Last Updated' cells of the rows, top to bottom
Stamps(rows) == [r \in 1..Len(rows) |-> Cell(rows[r], "Last Updated")]

\* C20: an update_task call run on its own that returned False, its map not
\* naming 'Last Updated', left the 'Last Updated' of its row (and of every
\* row) as it was, also when entries of the map were written before the
\* failure.
C20_FailureKeepsStamp ==
    \A s \in Sessions :
        (Done(s, "update_task", "False") /\ ~HasKey(updates[s], "Last Updated"))
        => Stamps(sheet) = Stamps(pre)

C20_DataChangedStampKept ==
    \E s \in Sessions :
        /\ Done(s, "update_task", "False") /\ updates[s] = UpdProgress
        /\ idx[s] # 0 /\ k[s] = 2
        /\ clock = MaxClock
        /\ Cell(pre[Target(s)], "Status") = "Not Started"
        /\ Cell(sheet[Target(s)], "Status") = "In Progress"
        /\ Cell(sheet[Target(s)], "Progress %") = "0"
        /\ Cell(sheet[Target(s)], "Last Updated") = StrftimeStamp(0)

TypeOK ==
    /\ Len(sheet) <= MaxRows
    /\ \A r \in 1..Len(sheet) : Len(sheet[r]) = Len(columns)
    /\ clock \in 0..MaxClock
====
